---- MODULE Spec2Model ----
(***************************************************************************)
(* Model of nanobot's persistent memory layer:                             *)
(*   MemoryStore.consolidate          (nanobot/agent/memory.py)            *)
(*   VectorMemoryStore.add_memory     (nanobot/agent/vector_memory.py)     *)
(*   DatabaseManager.connect / close  (nanobot/utils/db.py)                *)
(* Text is a sequence of one-character strings, so that rstrip, strip and  *)
(* the string coercion of tool arguments are computed, not assumed.        *)
(***************************************************************************)
EXTENDS Integers, Sequences, FiniteSets, TLC

\* ---------------------------------------------------------------- bounds
MaxMsgs == 4       \* messages a session holds at most
MaxWindow == 5     \* largest memory_window a caller passes
MaxCalls == 2      \* consolidate calls per behaviour
PersistWindow == 2 \* the memory_window passed in SpecPersist
\* the session of SpecPersist grows until it is one message past the keep count
PersistMsgs == PersistWindow \div 2 + 1

\* user_id defaults to None; None and 0 are both falsy, ids are SERIAL >= 1
NoUser == 0
UserIds == {1}

\* --------------------------------------------------------- text helpers
Whitespace == {" ", "\n", "\t"}

RECURSIVE RStrip(_)
\* str.rstrip(): drop trailing whitespace
RStrip(s) ==
    IF s = <<>> THEN <<>>
    ELSE IF s[Len(s)] \in Whitespace THEN RStrip(SubSeq(s, 1, Len(s) - 1))
    ELSE s

RECURSIVE LStrip(_)
LStrip(s) ==
    IF s = <<>> THEN <<>>
    ELSE IF s[1] \in Whitespace THEN LStrip(Tail(s))
    ELSE s

\* str.strip()
Strip(s) == LStrip(RStrip(s))

\* ------------------------------------------------- tool argument values
\* A value of the parsed tool arguments: t is its Python type, v its text
\* (str), its decimal digits (int) or its items (list).
JNone == [t |-> "none", v |-> <<>>]
JStr(s) == [t |-> "str", v |-> s]
JInt(digits) == [t |-> "int", v |-> digits]
JList(items) == [t |-> "list", v |-> items]

\* Python truthiness, as tested by `if entry := args.get(...)`
Truthy(x) ==
    CASE x.t = "none" -> FALSE
      [] x.t = "str"  -> x.v # <<>>
      [] x.t = "int"  -> x.v # <<"0">>
      [] OTHER        -> x.v # <<>>

RECURSIVE Dumps(_)
RECURSIVE DumpsItems(_)
\* json.dumps(x, ensure_ascii=False) of the values the model draws
\* (strings here hold no character that needs escaping)
DumpsItems(items) ==
    IF items = <<>> THEN <<>>
    ELSE IF Len(items) = 1 THEN Dumps(items[1])
    ELSE Dumps(items[1]) \o <<",", " ">> \o DumpsItems(Tail(items))

Dumps(x) ==
    CASE x.t = "none" -> <<"n", "u", "l", "l">>
      [] x.t = "str"  -> <<"\"">> \o x.v \o <<"\"">>
      [] x.t = "int"  -> x.v
      [] OTHER        -> <<"[">> \o DumpsItems(x.v) \o <<"]">>

\* `if not isinstance(entry, str): entry = json.dumps(entry, ...)`
Coerce(x) == IF x.t = "str" THEN x.v ELSE Dumps(x)

\* ---------------------------------------------- selection of the slice
\* keep_count = memory_window // 2
KeepCount(mw) == mw \div 2

\* a Python slice bound: negative counts from the end, then clamp to [0, n]
PyBound(i, n) ==
    IF i < 0 THEN (IF i + n < 0 THEN 0 ELSE i + n)
    ELSE (IF i > n THEN n ELSE i)

\* s[start:stop] on a zero-based Python list
PySlice(s, start, stop) ==
    LET lo == PyBound(start, Len(s))
        hi == PyBound(stop, Len(s))
    IN  IF lo >= hi THEN <<>> ELSE SubSeq(s, lo + 1, hi)

\* session.messages[session.last_consolidated:-keep_count]
OldMessages(msgs, lc, kc) == PySlice(msgs, lc, 0 - kc)

\* a variant that keeps only the first early return
NoOpFirstOnly(msgs, lc, kc) == Len(msgs) <= kc

\* the three early `return True` of the non-archive path
NoOp(msgs, lc, kc) ==
    \/ Len(msgs) <= kc
    \/ Len(msgs) - lc <= 0
    \/ OldMessages(msgs, lc, kc) = <<>>

\* variants of the cursor update: the whole window subtracted, the keep
\* count stored, one message too many kept back
NewCursorFullWindow(aa, n, kc) == IF aa THEN 0 ELSE n - 2 * kc
NewCursorKeep(aa, n, kc) == IF aa THEN 0 ELSE kc
NewCursorOffByOne(aa, n, kc) == IF aa THEN 0 ELSE n - kc - 1

\* session.last_consolidated = 0 if archive_all else len(session.messages) - keep_count
NewCursor(aa, n, kc) == IF aa THEN 0 ELSE n - kc

\* a variant without the strip() test
IsFactAnyString(f) == f.t = "str"

\* `isinstance(fact, str) and fact.strip()`
IsFact(f) == f.t = "str" /\ Strip(f.v) # <<>>

\* ------------------------------------------------------ response inputs
HistoryEntries ==
    {JNone, JStr(<<"h", " ">>), JInt(<<"0">>), JInt(<<"7">>)}
MemoryUpdates ==
    {JNone, JStr(<<>>), JStr(<<"p">>), JInt(<<"7">>)}
FactsValues ==
    {JNone, JList(<<JStr(<<" ">>), JStr(<<"f">>), JInt(<<"7">>)>>), JInt(<<"7">>)}

\* the mapping save_memory is called with
Documents ==
    [history_entry : HistoryEntries, memory_update : MemoryUpdates, facts : FactsValues]
NoArgs == [history_entry |-> JNone, memory_update |-> JNone, facts |-> JNone]

\* response.tool_calls[0].arguments: a dict, a str holding JSON of a dict, a
\* str holding JSON of a list, a str that is no JSON, or a list
Arguments ==
    [pytype : {"dict"}, json : {"-"}, doc : Documents]
    \cup [pytype : {"str"}, json : {"dict"}, doc : Documents]
    \cup [pytype : {"str"}, json : {"list", "invalid"}, doc : {NoArgs}]
    \cup [pytype : {"list"}, json : {"-"}, doc : {NoArgs}]

\* what provider.chat does: raises, answers without a tool call, or calls the tool
Responses ==
    [kind : {"raise", "text"}, arguments : {[pytype |-> "list", json |-> "-", doc |-> NoArgs]}]
    \cup [kind : {"tool"}, arguments : Arguments]

\* the responses of Spec: every kind of response, the well-formed tool calls
\* carrying either no field or all three fields
BasicDocument ==
    [history_entry |-> JStr(<<"h", " ">>), memory_update |-> JStr(<<"p">>),
     facts |-> JList(<<JStr(<<" ">>), JStr(<<"f">>), JInt(<<"7">>)>>)]
BasicResponses ==
    {r \in Responses :
        \/ r.kind \in {"raise", "text"}
        \/ r.arguments.doc \in {NoArgs, BasicDocument}}

\* json.loads raises on a string that is no JSON
LoadsRaises(a) == a.pytype = "str" /\ a.json = "invalid"
\* a variant that takes whatever json.loads returns, or any non-string, as the mapping
IsDictUnchecked(a) == TRUE

\* isinstance(args, dict) after the optional json.loads
IsDict(a) ==
    \/ a.pytype = "dict"
    \/ a.pytype = "str" /\ a.json = "dict"

\* ------------------------------------------------------------ the store
\* the slots in which storage operations run concurrently
Slots == {"t1", "t2"}
\* storage operations one slot may start
MaxOps == 1
\* asyncpg.create_pool(max_size=10)
PoolMaxSize == 10
\* search_memories(user_id, query, limit=5)
DefaultLimit == 5

\* the database the program starts over: two users, each with one identity
SeedUsers == {1, 2}
FirstNewId == Cardinality(SeedUsers) + 1
SeedIdentities == {<<"cli", "u1", 1>>, <<"cli", "u2", 2>>}
SeedMemories ==
    << <<1, <<"f">>>>, <<2, <<"g">>>>, <<1, <<"g">>>>, <<1, <<"k">>>> >>

\* the arguments the operations are called with
Channels == {"cli"}
Senders == {"u1", "n1"}
Contents == {<<"k">>}
Queries == {<<"q">>}
Limits == {0, 2, DefaultLimit}

\* a slot in which nothing runs
IdleTask ==
    [op |-> "none", pc |-> "idle", n |-> 0, channel |-> "", sender |-> "",
     uid |-> 0, text |-> <<>>, limit |-> 0, conns |-> 0, tx_user |-> 0,
     tx_identity |-> FALSE, ret_id |-> 0, ret_rows |-> <<>>, outcome |-> "none"]

\* the vector the embedding provider returns for a text, as one number
Embedding(text) ==
    CASE text = <<"f">> -> 1
      [] text = <<"g">> -> 2
      [] text = <<"q">> -> 3
      [] text = <<"k">> -> 4
      [] OTHER -> 0

\* `embedding <=> $2::vector`: the distance of two vectors
Distance(a, b) == IF a < b THEN b - a ELSE a - b

\* a variant of add_memory that goes on without a vector
EmbeddingFailedIgnored(e) == FALSE

\* `if not embedding: return`
EmbeddingFailed(e) == e = "none"

\* ---------------------------------------------------------------- state
VARIABLES
    messages,           \* session.messages (message ids, oldest first)
    last_consolidated,  \* session.last_consolidated
    memory_file,        \* content of MEMORY.md (<<>> when it does not exist)
    history_file,       \* HISTORY.md as the sequence of chunks written to it
    vector_memories,    \* rows of table vector_memories: <<user_id, content>>
    enabled,            \* DatabaseManager.enabled
    pool,               \* DatabaseManager._pool is set
    pc,                 \* where the consolidate call in flight is
    archive_all, memory_window, user_id, vector_store,   \* its arguments
    keep_count, old_messages, current_memory,            \* its locals
    args,               \* the parsed arguments; a field is cleared once it has
                        \* been read, as the code never reads it again
    idx,                \* position of `for fact in facts`
    forwarded,          \* the add_memory calls it has made: <<user_id, content>>
    result,             \* what the last consolidate call returned
    log,                \* the message that call logged when it ended
    calls,              \* consolidate calls started
    embedding,          \* add_memory's local: "vector", or "none" (None)
    archived,           \* history: the slices sent by the calls that succeeded
    closing,            \* close() is suspended in `await self._pool.close()`
    users,              \* rows of table users (their ids), committed
    next_id,            \* the SERIAL sequence of users.id
    identities,         \* rows of table user_identities, committed
    task,               \* the storage operations in flight, one per slot
    db_log              \* what the last connect() that did something logged

session == <<messages, last_consolidated>>
files == <<memory_file, history_file>>
db == <<enabled, pool>>
params == <<archive_all, memory_window, user_id, vector_store>>
locals == <<keep_count, old_messages, current_memory, args, idx, forwarded>>
tables == <<users, next_id, identities>>
store == <<closing, users, next_id, identities, task, db_log>>
vars == <<messages, last_consolidated, memory_file, history_file, vector_memories,
          enabled, pool, pc, archive_all, memory_window, user_id, vector_store,
          keep_count, old_messages, current_memory, args, idx, forwarded,
          result, log, calls, embedding, archived, closing, users, next_id,
          identities, task, db_log>>

\* the objects as constructed, over a database that holds `rows`
InitOver(rows) ==
    /\ messages = <<>>
    /\ last_consolidated = 0
    /\ memory_file = <<>>
    /\ history_file = <<>>
    /\ vector_memories = rows
    /\ enabled \in BOOLEAN
    /\ pool = FALSE
    /\ pc = "idle"
    /\ archive_all = FALSE
    /\ memory_window = 0
    /\ user_id = NoUser
    /\ vector_store = FALSE
    /\ keep_count = 0
    /\ old_messages = <<>>
    /\ current_memory = <<>>
    /\ args = NoArgs
    /\ idx = 0
    /\ forwarded = <<>>
    /\ result = "none"
    /\ log = "none"
    /\ calls = 0
    /\ embedding = "none"
    /\ archived = <<>>
    /\ closing = FALSE
    /\ users = SeedUsers
    /\ next_id = FirstNewId
    /\ identities = SeedIdentities
    /\ task = [t \in Slots |-> IdleTask]
    /\ db_log = "none"

Init == InitOver(<<>>)

\* the call is over: its locals are gone
Return(r) ==
    /\ pc' = "idle"
    /\ result' = r
    /\ keep_count' = 0
    /\ old_messages' = <<>>
    /\ current_memory' = <<>>
    /\ args' = NoArgs
    /\ idx' = 0
    /\ forwarded' = <<>>

\* a variant whose handler reports success
FailReportingSuccess == Return("true") /\ log' = "failed"

\* `except Exception: logger.exception(...); return False`
Fail == Return("false") /\ log' = "failed"

\* points where the call is suspended (or none is running) and the caller runs
Suspended == pc \in {"idle", "chat", "embed", "insert"}

\* ------------------------------------------------------------ the caller
\* the owner of the session appends a message
AppendMessage(cap) ==
    /\ Suspended
    /\ Len(messages) < cap
    /\ messages' = Append(messages, Len(messages) + 1)
    /\ UNCHANGED <<last_consolidated, files, vector_memories, db, pc, params,
                   locals, result, log, calls>>

\* DatabaseManager.connect: create_pool, then _init_tables; `how` is what the
\* storage engine does: "pool" create_pool raises, "acquire" the acquire of
\* _init_tables raises, "ddl" a statement raises (caught inside _init_tables)
Connect(how) ==
    /\ Suspended
    /\ enabled
    /\ ~pool
    /\ pool' = (how # "pool")
    /\ enabled' = (how \in {"ok", "ddl"})
    /\ UNCHANGED <<session, files, vector_memories, pc, params, locals, result, log, calls>>

\* DatabaseManager.close
Close ==
    /\ Suspended
    /\ pool
    /\ pool' = FALSE
    /\ UNCHANGED <<session, files, vector_memories, enabled, pc, params, locals,
                   result, log, calls>>

\* ----------------------------------------------- MemoryStore.consolidate
\* entry of the call up to the await of provider.chat
Consolidate(aa, mw, uid, vs) ==
    /\ pc = "idle"
    /\ calls < MaxCalls
    /\ calls' = calls + 1
    /\ archive_all' = aa
    /\ memory_window' = mw
    /\ user_id' = uid
    /\ vector_store' = vs
    /\ IF ~aa /\ NoOp(messages, last_consolidated, KeepCount(mw))
       THEN Return("true") /\ log' = "none"
       ELSE /\ keep_count' = (IF aa THEN 0 ELSE KeepCount(mw))
            /\ old_messages' =
                   (IF aa THEN messages
                    ELSE OldMessages(messages, last_consolidated, KeepCount(mw)))
            /\ current_memory' = memory_file
            /\ pc' = "chat"
            /\ result' = "none"
            /\ log' = "none"
            /\ UNCHANGED <<args, idx, forwarded>>
    /\ UNCHANGED <<session, files, vector_memories, db>>

\* the call when read_long_term raises (MEMORY.md exists and cannot be read or
\* decoded): the read comes before the `try`, the exception leaves consolidate
ConsolidateReadRaises(aa, mw, uid, vs) ==
    /\ pc = "idle"
    /\ calls < MaxCalls
    /\ ~(~aa /\ NoOp(messages, last_consolidated, KeepCount(mw)))
    /\ calls' = calls + 1
    /\ archive_all' = aa
    /\ memory_window' = mw
    /\ user_id' = uid
    /\ vector_store' = vs
    /\ Return("raised")
    /\ log' = "none"
    /\ UNCHANGED <<session, files, vector_memories, db>>

\* provider.chat returns or raises; the arguments are parsed and type-checked
ChatResponse(r) ==
    /\ pc = "chat"
    /\ IF r.kind = "raise" \/ (r.kind = "tool" /\ LoadsRaises(r.arguments))
       THEN Fail
       ELSE IF r.kind = "text"
       THEN Return("false") /\ log' = "no_tool_call"
       ELSE IF ~IsDict(r.arguments)
       THEN Return("false") /\ log' = "unexpected_type"
       ELSE /\ args' = r.arguments.doc
            /\ pc' = "history"
            /\ UNCHANGED <<keep_count, old_messages, current_memory, idx, forwarded,
                           result, log>>
    /\ UNCHANGED <<session, files, vector_memories, db, params, calls>>

\* `if entry := args.get("history_entry")`: append_history(entry); `ok` is
\* whether the write to HISTORY.md goes through
AppendHistory(ok) ==
    /\ pc = "history"
    /\ IF ~Truthy(args.history_entry)
       THEN /\ pc' = "profile"
            /\ args' = [args EXCEPT !.history_entry = JNone]
            /\ UNCHANGED <<history_file, keep_count, old_messages, current_memory,
                           idx, forwarded, result, log>>
       ELSE IF ok
       THEN /\ history_file' =
                   Append(history_file,
                          RStrip(Coerce(args.history_entry)) \o <<"\n", "\n">>)
            /\ pc' = "profile"
            /\ args' = [args EXCEPT !.history_entry = JNone]
            /\ UNCHANGED <<keep_count, old_messages, current_memory, idx,
                           forwarded, result, log>>
       ELSE /\ Fail
            /\ UNCHANGED history_file
    /\ UNCHANGED <<session, memory_file, vector_memories, db, params, calls>>

\* `if update := args.get("memory_update")`: write_long_term when it differs
WriteProfile(ok) ==
    /\ pc = "profile"
    /\ IF ~Truthy(args.memory_update) \/ Coerce(args.memory_update) = current_memory
       THEN /\ pc' = "facts"
            /\ args' = [args EXCEPT !.memory_update = JNone]
            /\ UNCHANGED <<memory_file, keep_count, old_messages, current_memory,
                           idx, forwarded, result, log>>
       ELSE IF ok
       THEN /\ memory_file' = Coerce(args.memory_update)
            /\ pc' = "facts"
            /\ args' = [args EXCEPT !.memory_update = JNone]
            /\ UNCHANGED <<keep_count, old_messages, current_memory, idx,
                           forwarded, result, log>>
       ELSE /\ Fail
            /\ UNCHANGED memory_file
    /\ UNCHANGED <<session, history_file, vector_memories, db, params, calls>>

\* `if user_id and vector_store and (facts := args.get("facts")):` and the
\* start of `for fact in facts` (iterating an int raises TypeError)
CheckFacts ==
    /\ pc = "facts"
    /\ IF user_id # NoUser /\ vector_store /\ Truthy(args.facts)
       THEN IF args.facts.t = "list"
            THEN /\ pc' = "loop"
                 /\ idx' = 1
                 /\ UNCHANGED <<keep_count, old_messages, current_memory, args,
                                forwarded, result, log>>
            ELSE Fail
       ELSE /\ pc' = "cursor"
            /\ args' = NoArgs
            /\ UNCHANGED <<keep_count, old_messages, current_memory, idx,
                           forwarded, result, log>>
    /\ UNCHANGED <<session, files, vector_memories, db, params, calls>>

\* one turn of the loop: the next fact is skipped, or add_memory is entered
\* (it returns at once when the store is disabled or has no pool)
NextFact ==
    /\ pc = "loop"
    /\ IF idx > Len(args.facts.v)
       THEN /\ pc' = "cursor"
            /\ args' = NoArgs
            /\ idx' = 0
            /\ forwarded' = <<>>
       ELSE IF ~IsFact(args.facts.v[idx])
       THEN /\ idx' = idx + 1
            /\ UNCHANGED <<pc, args, forwarded>>
       ELSE /\ forwarded' = Append(forwarded, <<user_id, args.facts.v[idx].v>>)
            /\ UNCHANGED args
            /\ IF enabled /\ pool
               THEN pc' = "embed" /\ UNCHANGED idx
               ELSE idx' = idx + 1 /\ UNCHANGED pc
    /\ UNCHANGED <<session, files, vector_memories, db, params, keep_count,
                   old_messages, current_memory, result, log, calls>>

\* add_memory: get_embeddings returns a vector (ok) or None
Embed(ok) ==
    /\ pc = "embed"
    /\ embedding' = (IF ok THEN "vector" ELSE "none")
    /\ IF EmbeddingFailed(embedding')
       THEN pc' = "loop" /\ idx' = idx + 1
       ELSE pc' = "insert" /\ UNCHANGED idx
    /\ UNCHANGED <<session, files, vector_memories, db, params, keep_count,
                   old_messages, current_memory, args, forwarded, result, log, calls>>

\* add_memory: acquire a connection and INSERT; every exception is caught
\* (also the AttributeError when close() has set the pool to None)
Insert(ok) ==
    /\ pc = "insert"
    /\ vector_memories' =
           (IF pool /\ ok
            THEN Append(vector_memories, <<user_id, args.facts.v[idx].v>>)
            ELSE vector_memories)
    /\ embedding' = "none"
    /\ pc' = "loop"
    /\ idx' = idx + 1
    /\ UNCHANGED <<session, files, db, params, keep_count, old_messages,
                   current_memory, args, forwarded, result, log, calls>>

\* a variant that moves the cursor as soon as the response is parsed
AdvanceCursorFirst ==
    /\ pc = "history"
    /\ last_consolidated' = NewCursor(archive_all, Len(messages), keep_count)
    /\ pc' = "history"
    /\ UNCHANGED <<messages, files, vector_memories, db, params, locals, result,
                   log, calls>>

\* the cursor update and `return True`
AdvanceCursor ==
    /\ pc = "cursor"
    /\ last_consolidated' = NewCursor(archive_all, Len(messages), keep_count)
    /\ Return("true")
    /\ log' = "done"
    /\ UNCHANGED <<messages, files, vector_memories, db, params, calls>>

\* ------------------------------------------------- storage operations
\* connections checked out of the pool
CheckedOut == Cardinality({t \in Slots : task[t].conns > 0})

\* what the consolidate call and the files keep while the store works
consolidation ==
    <<session, files, pc, params, locals, result, log, calls, embedding, archived>>

\* a slot is free for the next operation
Free(t) == task[t].pc \in {"idle", "done"} /\ task[t].n < MaxOps

\* operation `op` starts in slot t
Started(t, op) == [IdleTask EXCEPT !.op = op, !.pc = "running", !.n = task[t].n + 1]

\* a variant of the exit of `async with` that keeps the connection
ReleaseNever(n) == n

\* the exit of `async with self.db.pool.acquire() as conn`, on every path
Release(n) == IF n > 0 THEN n - 1 ELSE n

\* the operation returns: the connection goes back, an open transaction is
\* rolled back
Returned(r) ==
    [r EXCEPT !.pc = "done", !.conns = Release(r.conns), !.tx_user = 0,
              !.tx_identity = FALSE, !.outcome = "returned"]

\* a variant of the acquire that works on a pool object taken earlier
PoolUsableAlways == TRUE

\* `self.db.pool.acquire()` works on a pool that is set and not closing
PoolUsable == pool /\ ~closing

\* get_user_id(channel, sender_id) up to the acquire of a connection
GetUserId(t, ch, sid) ==
    /\ Free(t)
    /\ task' = [task EXCEPT ![t] =
           IF ~pool \/ ~enabled
           THEN Returned([Started(t, "get_user_id") EXCEPT !.channel = ch, !.sender = sid])
           ELSE [Started(t, "get_user_id") EXCEPT
                    !.channel = ch, !.sender = sid, !.pc = "acquire"]]
    /\ UNCHANGED <<consolidation, db_log, vector_memories, db, closing, tables>>

\* add_memory(user_id, content) up to the await of get_embeddings
AddMemory(t, uid, content) ==
    /\ Free(t)
    /\ task' = [task EXCEPT ![t] =
           IF ~enabled \/ ~pool
           THEN Returned([Started(t, "add_memory") EXCEPT !.uid = uid, !.text = content])
           ELSE [Started(t, "add_memory") EXCEPT
                    !.uid = uid, !.text = content, !.pc = "embed"]]
    /\ UNCHANGED <<consolidation, db_log, vector_memories, db, closing, tables>>

\* search_memories(user_id, query, limit) up to the await of get_embeddings
SearchMemories(t, uid, query, limit) ==
    /\ Free(t)
    /\ task' = [task EXCEPT ![t] =
           IF ~enabled \/ ~pool
           THEN Returned([Started(t, "search_memories") EXCEPT
                             !.uid = uid, !.text = query, !.limit = limit])
           ELSE [Started(t, "search_memories") EXCEPT
                    !.uid = uid, !.text = query, !.limit = limit, !.pc = "embed"]]
    /\ UNCHANGED <<consolidation, db_log, vector_memories, db, closing, tables>>

\* get_embeddings returns a vector (ok) or None (no key, bad status, exception)
GetEmbeddings(t, ok) ==
    /\ task[t].pc = "embed"
    /\ task' = [task EXCEPT ![t] =
           IF EmbeddingFailed(IF ok THEN "vector" ELSE "none")
           THEN Returned(task[t])
           ELSE [task[t] EXCEPT !.pc = "acquire"]]
    /\ UNCHANGED <<consolidation, db_log, vector_memories, db, closing, tables>>

\* `async with ...pool.acquire() as conn`: a connection, or an exception that
\* the operation catches (pool None or closing, no connection to be had); the
\* acquire waits while all connections of the pool are out
Acquire(t, ok) ==
    /\ task[t].pc = "acquire"
    /\ CheckedOut < PoolMaxSize
    /\ task' = [task EXCEPT ![t] =
           IF PoolUsable /\ ok
           THEN [task[t] EXCEPT
                    !.conns = task[t].conns + 1,
                    !.pc = CASE task[t].op = "get_user_id" -> "select"
                             [] task[t].op = "add_memory" -> "execute"
                             [] OTHER -> "fetch"]
           ELSE Returned(task[t])]
    /\ UNCHANGED <<consolidation, db_log, vector_memories, db, closing, tables>>

\* what connect() logs: logger.info when the pool is there, logger.error
\* "Failed to initialize database tables" inside _init_tables, logger.error
\* "Failed to connect to database" in its own handler
ConnectLog(how) ==
    CASE how = "ok" -> "initialized"
      [] how = "ddl" -> "init_failed"
      [] OTHER -> "connect_failed"

\* connect() on an enabled manager without a pool, and what it logs
ConnectLogged(how) ==
    /\ Connect(how)
    /\ db_log' = ConnectLog(how)
    /\ UNCHANGED <<embedding, archived, closing, tables, task>>

\* the committed identity rows of a pair (at most one: it is the primary key)
IdentityRows(ch, sid) == {i \in identities : i[1] = ch /\ i[2] = sid}

\* another transaction has inserted an identity row of the pair and is open:
\* the unique index makes this one wait for its end
LockedByOther(t) ==
    \E o \in Slots \ {t} :
        /\ task[o].tx_identity
        /\ task[o].channel = task[t].channel
        /\ task[o].sender = task[t].sender

\* a variant of the table without its primary key
UniqueViolationNever(t) == FALSE

\* the insert of slot t meets a committed row of the same (channel, sender_id)
UniqueViolation(t) == IdentityRows(task[t].channel, task[t].sender) # {}

\* `SELECT user_id FROM user_identities WHERE channel = $1 AND sender_id = $2`
\* and `if row: return row['user_id']`; without a row the transaction begins
SelectIdentity(t, ok) ==
    /\ task[t].pc = "select"
    /\ LET found == IdentityRows(task[t].channel, task[t].sender) IN
       task' = [task EXCEPT ![t] =
           IF ~ok THEN Returned(task[t])
           ELSE IF found # {}
           THEN Returned([task[t] EXCEPT !.ret_id = (CHOOSE i \in found : TRUE)[3]])
           ELSE [task[t] EXCEPT !.pc = "insert_user"]]
    /\ UNCHANGED <<consolidation, db_log, vector_memories, db, closing, tables>>

\* `INSERT INTO users DEFAULT VALUES RETURNING id`: the sequence moves on even
\* when the transaction is rolled back later
InsertUser(t, ok) ==
    /\ task[t].pc = "insert_user"
    /\ IF ok
       THEN /\ task' = [task EXCEPT ![t] =
                   [task[t] EXCEPT !.tx_user = next_id, !.pc = "insert_identity"]]
            /\ next_id' = next_id + 1
       ELSE /\ task' = [task EXCEPT ![t] = Returned(task[t])]
            /\ UNCHANGED next_id
    /\ UNCHANGED <<consolidation, db_log, vector_memories, db, closing, users, identities>>

\* `INSERT INTO user_identities (user_id, channel, sender_id) VALUES ...`: a
\* committed row of the pair is a unique violation, caught as any exception
InsertIdentity(t, ok) ==
    /\ task[t].pc = "insert_identity"
    /\ ~LockedByOther(t)
    /\ task' = [task EXCEPT ![t] =
           IF ok /\ ~UniqueViolation(t)
           THEN [task[t] EXCEPT !.tx_identity = TRUE, !.pc = "commit"]
           ELSE Returned(task[t])]
    /\ UNCHANGED <<consolidation, db_log, vector_memories, db, closing, tables>>

\* the end of `async with conn.transaction()` and `return user_id`
Commit(t, ok) ==
    /\ task[t].pc = "commit"
    /\ IF ok
       THEN /\ users' = users \cup {task[t].tx_user}
            /\ identities' = identities \cup
                   {<<task[t].channel, task[t].sender, task[t].tx_user>>}
            /\ task' = [task EXCEPT ![t] =
                   Returned([task[t] EXCEPT !.ret_id = task[t].tx_user])]
       ELSE /\ task' = [task EXCEPT ![t] = Returned(task[t])]
            /\ UNCHANGED <<users, identities>>
    /\ UNCHANGED <<consolidation, db_log, vector_memories, db, closing, next_id>>

\* `INSERT INTO vector_memories (user_id, content, embedding) VALUES ...`
Execute(t, ok) ==
    /\ task[t].pc = "execute"
    /\ vector_memories' =
           (IF ok THEN Append(vector_memories, <<task[t].uid, task[t].text>>)
                  ELSE vector_memories)
    /\ task' = [task EXCEPT ![t] = Returned(task[t])]
    /\ UNCHANGED <<consolidation, db_log, db, closing, tables>>

\* the positions of the rows of a user
RowsOf(rows, uid) == {i \in 1..Len(rows) : rows[i][1] = uid}

\* a variant of the query without ORDER BY
OrderedAnyhow(rows, p, query) == TRUE

\* `ORDER BY embedding <=> $2::vector`: p lists rows by distance to the query
Ordered(rows, p, query) ==
    \A i, j \in DOMAIN p :
        i < j => Distance(Embedding(rows[p[i]][2]), Embedding(query))
                     <= Distance(Embedding(rows[p[j]][2]), Embedding(query))

\* `LIMIT $3`
LimitedCount(n, limit) == IF limit < n THEN limit ELSE n

\* what `SELECT content FROM vector_memories WHERE user_id = $1 ORDER BY
\* embedding <=> $2::vector LIMIT $3` may return (equal distances come in any
\* order), as `[row['content'] for row in rows]`
QueryResults(rows, uid, query, limit) ==
    LET own == RowsOf(rows, uid)
        n == Cardinality(own)
        orders == {p \in [1..n -> own] :
                      /\ \A i, j \in 1..n : i # j => p[i] # p[j]
                      /\ Ordered(rows, p, query)}
    IN  {[i \in 1..LimitedCount(n, limit) |-> rows[p[i]][2]] : p \in orders}

\* the query runs (ok) and its rows are returned, or it raises and [] is
SearchFetch(t, ok) ==
    /\ task[t].pc = "fetch"
    /\ \E rows \in (IF ok THEN QueryResults(vector_memories, task[t].uid,
                                             task[t].text, task[t].limit)
                          ELSE {<<>>}) :
           task' = [task EXCEPT ![t] = Returned([task[t] EXCEPT !.ret_rows = rows])]
    /\ UNCHANGED <<consolidation, db_log, vector_memories, db, closing, tables>>

\* close() up to `await self._pool.close()`
CloseBegin ==
    /\ pool
    /\ ~closing
    /\ closing' = TRUE
    /\ UNCHANGED <<consolidation, db_log, vector_memories, db, tables, task>>

\* the pool has closed once every connection is back; `self._pool = None`
CloseEnd ==
    /\ closing
    /\ CheckedOut = 0
    /\ closing' = FALSE
    /\ pool' = FALSE
    /\ UNCHANGED <<consolidation, db_log, vector_memories, enabled, tables, task>>

\* every step of the caller, the storage engine, the providers and the call
\* (`track` keeps the history of the slices that were archived)
Steps(cap, Windows, Resps, Flags, track) ==
    \/ AppendMessage(cap) /\ UNCHANGED <<embedding, archived, store>>
    \/ \E how \in {"ok", "pool", "acquire", "ddl"} :
          Connect(how) /\ UNCHANGED <<embedding, archived, store>>
    \/ Close /\ UNCHANGED <<embedding, archived, store>>
    \/ \E aa \in Flags, mw \in Windows, uid \in UserIds \cup {NoUser},
          vs \in BOOLEAN :
          Consolidate(aa, mw, uid, vs) /\ UNCHANGED <<embedding, archived, store>>
    \/ \E r \in Resps : ChatResponse(r) /\ UNCHANGED <<embedding, archived, store>>
    \/ \E ok \in BOOLEAN : AppendHistory(ok) /\ UNCHANGED <<embedding, archived, store>>
    \/ \E ok \in BOOLEAN : WriteProfile(ok) /\ UNCHANGED <<embedding, archived, store>>
    \/ CheckFacts /\ UNCHANGED <<embedding, archived, store>>
    \/ NextFact /\ UNCHANGED <<embedding, archived, store>>
    \/ \E ok \in BOOLEAN : Embed(ok) /\ UNCHANGED <<archived, store>>
    \/ \E ok \in BOOLEAN : Insert(ok) /\ UNCHANGED <<archived, store>>
    \/ /\ AdvanceCursor
       /\ archived' = (IF track THEN archived \o old_messages ELSE archived)
       /\ UNCHANGED <<embedding, store>>

\* the steps with either value of archive_all
Step(cap, Windows, Resps) == Steps(cap, Windows, Resps, BOOLEAN, FALSE)

\* Spec: sessions up to MaxMsgs messages and every memory_window up to
\* MaxWindow, with one well-formed tool call among the responses
Next == Step(MaxMsgs, 0..MaxWindow, BasicResponses)
Spec == Init /\ [][Next]_vars

\* SpecPersist: a short session, with every document of Documents
PersistResponses == {r \in Responses : r.arguments.pytype # "str" \/ r.arguments.doc = NoArgs}
NextPersist == Step(PersistMsgs, {PersistWindow}, PersistResponses)
SpecPersist == Init /\ [][NextPersist]_vars

\* SpecAppend: one window, archive_all never set, the caller appending at any
\* suspension point of the call
NextAppend == Steps(MaxMsgs, {PersistWindow}, BasicResponses, {FALSE}, TRUE)
SpecAppend == Init /\ [][NextAppend]_vars

\* SpecFacts: SpecPersist's session, with a tool call that carries two facts
\* around a blank one
TwoFactsDocument ==
    [history_entry |-> JStr(<<"h", " ">>), memory_update |-> JStr(<<"p">>),
     facts |-> JList(<<JStr(<<"f">>), JStr(<<" ">>), JStr(<<"g">>)>>)]
FactsResponses ==
    {[kind |-> "tool",
      arguments |-> [pytype |-> "dict", json |-> "-", doc |-> TwoFactsDocument]]}
NextFacts == Step(PersistMsgs, {PersistWindow}, FactsResponses)
SpecFacts == Init /\ [][NextFacts]_vars

\* SpecFiles: SpecPersist's session with the basic responses, where also the
\* read of MEMORY.md can fail
NextFiles ==
    \/ Step(PersistMsgs, {PersistWindow}, BasicResponses)
    \/ \E aa \in BOOLEAN, uid \in UserIds \cup {NoUser}, vs \in BOOLEAN :
          /\ ConsolidateReadRaises(aa, PersistWindow, uid, vs)
          /\ UNCHANGED <<embedding, archived, store>>
SpecFiles == Init /\ [][NextFiles]_vars

\* SpecStore: the storage operations, run concurrently in the slots over a
\* database that is empty or holds SeedMemories, while the manager is
\* connected and closed
InitStore == \E rows \in {<<>>, SeedMemories} : InitOver(rows)
NextStore ==
    \/ \E how \in {"ok", "pool", "acquire", "ddl"} : ConnectLogged(how)
    \/ CloseBegin
    \/ CloseEnd
    \/ \E t \in Slots, ch \in Channels, sid \in Senders : GetUserId(t, ch, sid)
    \/ \E t \in Slots, uid \in SeedUsers, content \in Contents :
          AddMemory(t, uid, content)
    \/ \E t \in Slots, uid \in SeedUsers, query \in Queries, limit \in Limits :
          SearchMemories(t, uid, query, limit)
    \/ \E t \in Slots, ok \in BOOLEAN : GetEmbeddings(t, ok)
    \/ \E t \in Slots, ok \in BOOLEAN : Acquire(t, ok)
    \/ \E t \in Slots, ok \in BOOLEAN : SelectIdentity(t, ok)
    \/ \E t \in Slots, ok \in BOOLEAN : InsertUser(t, ok)
    \/ \E t \in Slots, ok \in BOOLEAN : InsertIdentity(t, ok)
    \/ \E t \in Slots, ok \in BOOLEAN : Commit(t, ok)
    \/ \E t \in Slots, ok \in BOOLEAN : Execute(t, ok)
    \/ \E t \in Slots, ok \in BOOLEAN : SearchFetch(t, ok)
SpecStore == InitStore /\ [][NextStore]_vars

\* SpecResolve: get_user_id calls alone, concurrent and one after another, on
\* a store that connects and where no statement fails
NextResolve ==
    \/ Connect("ok") /\ UNCHANGED <<embedding, archived, store>>
    \/ \E t \in Slots, ch \in Channels, sid \in Senders : GetUserId(t, ch, sid)
    \/ \E t \in Slots : Acquire(t, TRUE)
    \/ \E t \in Slots : SelectIdentity(t, TRUE)
    \/ \E t \in Slots : InsertUser(t, TRUE)
    \/ \E t \in Slots : InsertIdentity(t, TRUE)
    \/ \E t \in Slots : Commit(t, TRUE)
SpecResolve == Init /\ [][NextResolve]_vars

\* ============================================================== claims
\* a consolidate call starts (and, when it is a no-op, ends) in this step
Called == pc = "idle" /\ calls' = calls + 1
\* a consolidate call that issued its generation request ends in this step
Ended == pc # "idle" /\ pc' = "idle"
\* the call started in this step returns at once, without a request
ReturnedAtOnce == Called /\ pc' = "idle"

\* C1: in every reachable state 0 <= last_consolidated <= len(messages)
C1_CursorInRange ==
    /\ 0 <= last_consolidated
    /\ last_consolidated <= Len(messages)

\* a success moved the cursor, a later message arrived and a later call failed
C1_Witness ==
    /\ last_consolidated > 0
    /\ last_consolidated < Len(messages)
    /\ calls >= 2
    /\ result = "false"

\* C2 as stated: every successful call leaves last_consolidated >= its value
\* before the call, and a no-op or a call returning false leaves it unchanged
C2_MonotoneOverSuccesses ==
    [][/\ (Ended /\ result' = "true") => last_consolidated' >= last_consolidated
       /\ (Ended /\ result' = "false") => last_consolidated' = last_consolidated
       /\ ReturnedAtOnce => last_consolidated' = last_consolidated]_vars

\* C2 amended: a successful call with archive_all false leaves
\* last_consolidated >= its value before the call, a successful call with
\* archive_all true resets it to 0, and a no-op or a call returning false
\* leaves it unchanged
C2_MonotoneUnlessArchiveAll ==
    [][/\ (Ended /\ result' = "true" /\ ~archive_all)
            => last_consolidated' >= last_consolidated
       /\ (Ended /\ result' = "true" /\ archive_all) => last_consolidated' = 0
       /\ (Ended /\ result' = "false") => last_consolidated' = last_consolidated
       /\ ReturnedAtOnce => last_consolidated' = last_consolidated]_vars

\* the second of two calls, with archive_all false, succeeded from a cursor
\* the first had already advanced
C2_Witness ==
    /\ calls >= 2
    /\ result = "true"
    /\ log = "done"
    /\ ~archive_all
    /\ last_consolidated >= 2

\* C3: with archive_all false, a call on a session with len(messages) <=
\* window_size // 2, or len(messages) - last_consolidated <= 0, or an empty
\* candidate slice returns true, issues no request and leaves the cursor,
\* the Profile, the History log and the stored facts unchanged
C3_NoOpFrame ==
    [][(/\ Called
        /\ ~archive_all'
        /\ \/ Len(messages) <= memory_window' \div 2
           \/ Len(messages) - last_consolidated <= 0
           \/ last_consolidated >= Len(messages) - memory_window' \div 2)
       => /\ pc' = "idle"
          /\ result' = "true"
          /\ UNCHANGED <<last_consolidated, memory_file, history_file,
                         vector_memories>>]_vars

\* a no-op on a session whose cursor equals the end of its candidate range,
\* after an earlier call has written the Profile and the History log
C3_Witness ==
    /\ calls >= 2
    /\ result = "true"
    /\ log = "none"
    /\ ~archive_all
    /\ Len(messages) > memory_window \div 2
    /\ last_consolidated > 0
    /\ last_consolidated = Len(messages) - memory_window \div 2
    /\ history_file # <<>>
    /\ memory_file # <<>>

\* C4: a call that returns true after its generation request leaves
\* last_consolidated = len(messages) - window_size // 2 (archive_all false)
\* or 0 (archive_all true), and nothing else changes the cursor
C4_CursorOnSuccess ==
    [][/\ (Ended /\ result' = "true")
            => last_consolidated' =
                   (IF archive_all THEN 0
                    ELSE Len(messages') - memory_window \div 2)
       /\ last_consolidated' # last_consolidated
            => (Ended /\ result' = "true")]_vars

\* the scenario of the specification scaled down: 4 messages, window 4,
\* cursor 0 ends at 2
C4_Witness ==
    /\ calls = 1
    /\ result = "true"
    /\ log = "done"
    /\ ~archive_all
    /\ memory_window = 4
    /\ Len(messages) = 4
    /\ last_consolidated = 2

\* the slice the call started in this step sends for archiving (none when
\* it returns at once)
Sent == IF pc' = "chat" THEN old_messages' ELSE <<>>

\* C5: the slice sent for archiving is messages[last_consolidated :
\* len(messages) - keep_count] with keep_count = window_size // 2 when
\* archive_all is false, to the end of the sequence when keep_count = 0, and
\* the entire sequence when archive_all is true
C5_CandidateSlice ==
    [][Called =>
          Sent = (IF archive_all' THEN messages
                  ELSE SubSeq(messages, last_consolidated + 1,
                              Len(messages) - memory_window' \div 2))]_vars

\* responses without a tool call, with a string that is no JSON, or with
\* arguments that are no mapping (before or after parsing)
MalformedResponses ==
    {r \in Responses :
        \/ r.kind = "text"
        \/ /\ r.kind = "tool"
           /\ \/ r.arguments.pytype = "list"
              \/ r.arguments.pytype = "str" /\ r.arguments.json \in {"invalid", "list"}}

\* C6: a response without a tool call, with unparseable string arguments or
\* with arguments that are no mapping makes consolidate return false, with
\* the Profile, the History log, the stored facts and the cursor unchanged
C6_MalformedResponseNoMutation ==
    [][pc = "chat" =>
          \A r \in MalformedResponses :
              ChatResponse(r)
                  => /\ pc' = "idle"
                     /\ result' = "false"
                     /\ UNCHANGED <<last_consolidated, memory_file, history_file,
                                    vector_memories>>]_vars

\* a call whose response held no tool call returned false, on a store that
\* an earlier call had written and a cursor that call had advanced
C6_Witness ==
    /\ calls >= 2
    /\ result = "false"
    /\ log = "no_tool_call"
    /\ last_consolidated > 0
    /\ history_file # <<>>
    /\ memory_file # <<>>

\* C7: with a memory_update present, the Profile is rewritten if and only if
\* the update, coerced to a string, differs from the stored Profile, and the
\* rewrite replaces the whole content (the step ends without an I/O error)
C7_ProfileRewrittenIffDiffers ==
    [][(pc = "profile" /\ pc' = "facts" /\ args.memory_update.t # "none")
          => /\ Coerce(args.memory_update) # memory_file
                 => memory_file' = Coerce(args.memory_update)
             /\ Coerce(args.memory_update) = memory_file
                 => memory_file' = memory_file]_vars

\* C8: a history_entry of any type and value adds exactly one block to the
\* History log, after the blocks already there (the step ends without an
\* I/O error)
C8_HistoryEntryAlwaysAppended ==
    [][(pc = "history" /\ pc' = "profile" /\ args.history_entry.t # "none")
          => /\ Len(history_file') = Len(history_file) + 1
             /\ SubSeq(history_file', 1, Len(history_file)) = history_file]_vars

RECURSIVE ExpectedCalls(_, _)
\* the add_memory calls C9 asks for: one per string with a character that is
\* no whitespace, in order, each with the caller's user_id
ExpectedCalls(items, uid) ==
    IF items = <<>> THEN <<>>
    ELSE LET f == Head(items)
             rest == ExpectedCalls(Tail(items), uid)
         IN  IF f.t = "str" /\ \E i \in 1..Len(f.v) : f.v[i] \notin {" ", "\n", "\t"}
             THEN <<<<uid, f.v>>>> \o rest
             ELSE rest

Supplied == user_id # NoUser /\ vector_store

\* C9: with a user_id and a Vector Store supplied, each fact that is a
\* non-blank string goes to add_memory exactly once with that user_id; with
\* either missing no fact is forwarded and no row is stored, and the call
\* goes on to advance the cursor and return true
C9_FactsForwarded ==
    [][/\ (pc = "loop" /\ pc' = "cursor")
            => forwarded = ExpectedCalls(args.facts.v, user_id)
       /\ (pc = "facts" /\ Supplied /\ args.facts.t = "list" /\ args.facts.v # <<>>)
            => pc' = "loop"
       /\ (pc = "facts" /\ ~Supplied)
            => pc' = "cursor" /\ UNCHANGED vector_memories
       /\ ~Supplied => forwarded = <<>> /\ pc \notin {"loop", "embed", "insert"}
       /\ vector_memories' # vector_memories => Supplied
       /\ pc = "cursor"
            => /\ result' = "true"
               /\ last_consolidated' =
                      (IF archive_all THEN 0
                       ELSE Len(messages) - memory_window \div 2)]_vars

\* the loop is over: of the facts " ", "f" and 7 only "f" went to add_memory,
\* once, and its row is stored
C9_Witness ==
    /\ pc = "loop"
    /\ args.facts.t = "list"
    /\ idx > Len(args.facts.v)
    /\ Len(args.facts.v) = 3
    /\ forwarded = <<<<1, <<"f">>>>>>
    /\ vector_memories = <<<<1, <<"f">>>>>>

\* the request raises, or json.loads does
RaisingResponses ==
    {r \in Responses :
        \/ r.kind = "raise"
        \/ r.kind = "tool" /\ r.arguments.pytype = "str" /\ r.arguments.json = "invalid"}

\* a step in which the request, the parse or a write raises
Raises ==
    \/ pc = "chat" /\ \E r \in RaisingResponses : ChatResponse(r)
    \/ pc = "history" /\ AppendHistory(FALSE) /\ pc' = "idle"
    \/ pc = "profile" /\ WriteProfile(FALSE) /\ pc' = "idle"
    \/ pc = "facts" /\ Supplied /\ args.facts.t = "int" /\ CheckFacts

\* C10: an exception in the request/parse/persist sequence makes the call
\* return false with the cursor unchanged, and what the call had written to
\* the History log, the Profile and the facts stays as it is
C10_ExceptionNoRollback ==
    [][Raises
          => /\ pc' = "idle"
             /\ result' = "false"
             /\ UNCHANGED <<last_consolidated, memory_file, history_file,
                            vector_memories>>]_vars

\* the second call on the same slice failed with an exception after it had
\* appended its block: the block is still there, a duplicate of the first
\* call's, and the cursor has not moved
C10_Witness ==
    /\ calls = 2
    /\ result = "false"
    /\ log = "failed"
    /\ ~archive_all
    /\ last_consolidated = 0
    /\ Len(history_file) = 2
    /\ history_file[1] = history_file[2]

\* C11: no failure leaves a public operation as an exception: every
\* consolidate call ends returning true or false, and every get_user_id,
\* add_memory and search_memories call returns
C11_NoFailureEscapes ==
    /\ result \in {"none", "true", "false"}
    /\ \A t \in Slots : task[t].pc = "done" => task[t].outcome = "returned"

\* the rows a search may return: at most `limit` contents, each of a row of
\* the user, by non-decreasing distance to the query
WellFormedResult(r, rows) ==
    /\ Len(r.ret_rows) <= r.limit
    /\ \A i \in 1..Len(r.ret_rows) :
           \E k \in 1..Len(rows) : rows[k] = <<r.uid, r.ret_rows[i]>>
    /\ \A i, j \in 1..Len(r.ret_rows) :
           i < j => Distance(Embedding(r.ret_rows[i]), Embedding(r.text))
                        <= Distance(Embedding(r.ret_rows[j]), Embedding(r.text))

\* the search_memories call of slot t returns in this step
SearchReturns(t) ==
    /\ task'[t] # task[t]
    /\ task'[t].op = "search_memories"
    /\ task'[t].pc = "done"

\* C12: search_memories returns the empty sequence when the store is
\* disabled or has no pool (at once), when the embedding fails and when the
\* pool gives no connection; only after the query has run it returns rows,
\* and then at most `limit` contents of rows of user_id, by non-decreasing
\* distance to the query (a failed query returns the empty sequence)
C12_SearchResult ==
    [][\A t \in Slots :
          /\ SearchReturns(t) =>
                IF task[t].pc = "fetch"
                THEN WellFormedResult(task'[t], vector_memories)
                ELSE task'[t].ret_rows = <<>>
          /\ (task'[t] # task[t] /\ task'[t].op = "search_memories"
                 /\ task[t].pc \in {"idle", "done"} /\ (~enabled \/ ~pool))
                => task'[t].pc = "done"
          /\ (task[t].op = "search_memories" /\ task[t].pc = "acquire"
                 /\ task'[t] # task[t] /\ (~pool \/ closing))
                => task'[t].pc = "done"]_vars

\* user 1 has three rows, two of them equally near: a search with limit 2
\* has returned the two nearest
C12_Witness ==
    \E t \in Slots :
        /\ task[t].op = "search_memories"
        /\ task[t].pc = "done"
        /\ task[t].limit < Cardinality(RowsOf(vector_memories, task[t].uid))
        /\ task[t].ret_rows = << <<"k">>, <<"g">> >>

\* the get_user_id calls that have returned
Resolved == {t \in Slots : task[t].op = "get_user_id" /\ task[t].pc = "done"}

\* C13: however concurrent get_user_id calls of one (channel, sender_id)
\* interleave, the pair never has two identity rows, every user row has an
\* identity row and every identity row its user row; once a call has
\* returned a user_id, the pair has exactly that one identity row and user row
C13_OneUserPerPair ==
    /\ \A ch \in Channels, sid \in Senders : Cardinality(IdentityRows(ch, sid)) <= 1
    /\ \A u \in users : \E i \in identities : i[3] = u
    /\ \A i \in identities : i[3] \in users
    /\ \A i, j \in identities : i[3] = j[3] => i = j
    /\ \A t \in Resolved :
           task[t].ret_id # 0 =>
               /\ IdentityRows(task[t].channel, task[t].sender)
                      = {<<task[t].channel, task[t].sender, task[t].ret_id>>}
               /\ task[t].ret_id \in users

\* two first-time calls of the same pair raced: both inserted a user row
\* (two ids are used up), one committed, and both have returned
C13_Witness ==
    /\ Resolved = Slots
    /\ \A t \in Slots : task[t].sender = "n1"
    /\ next_id = FirstNewId + 2
    /\ Cardinality(IdentityRows("cli", "n1")) = 1
    /\ Cardinality(users) = Cardinality(SeedUsers) + 1

\* C14: every get_user_id call that runs on a connected, enabled store,
\* alone or next to another, returns the one user_id that the pair is mapped
\* to, and the pair is mapped once
C14_SameUserId ==
    [][\A t \in Slots :
          (/\ task[t].op = "get_user_id"
           /\ task[t].pc \notin {"idle", "done"}
           /\ task'[t].pc = "done")
          => /\ task'[t].ret_id # 0
             /\ IdentityRows(task[t].channel, task[t].sender)'
                    = {<<task[t].channel, task[t].sender, task'[t].ret_id>>}]_vars

\* C15: after a connect() in which a step failed, pool creation or schema
\* initialization, the manager is disabled
C15_DisabledAfterFailure ==
    db_log \in {"connect_failed", "init_failed"} => ~enabled

Stage(p) ==
    CASE p = "chat" -> 0
      [] p = "history" -> 1
      [] p = "profile" -> 2
      [] p = "facts" -> 3
      [] p \in {"loop", "embed", "insert"} -> 4
      [] p = "cursor" -> 5
      [] OTHER -> 6

\* C17: within one consolidate call the history is appended first, then the
\* profile is overwritten, then the facts are inserted, and the cursor moves
\* last, in the step that returns true: whatever step a behaviour stops at,
\* the cursor has moved only for calls whose writes were all done
C17_CursorLast ==
    [][/\ history_file' # history_file => pc = "history"
       /\ memory_file' # memory_file => pc = "profile"
       /\ vector_memories' # vector_memories => pc = "insert"
       /\ last_consolidated' # last_consolidated =>
             /\ pc = "cursor"
             /\ args = NoArgs
             /\ pc' = "idle"
             /\ result' = "true"
       /\ (pc # "idle" /\ pc' # "idle") => Stage(pc) <= Stage(pc')]_vars

\* one call has appended to the history, rewritten the profile, inserted a
\* fact and then moved the cursor
C17_Witness ==
    /\ calls = 1
    /\ log = "done"
    /\ history_file # <<>>
    /\ memory_file # <<>>
    /\ vector_memories # <<>>
    /\ last_consolidated > 0

\* C18: a row is inserted only while add_memory holds the vector of its
\* content, and it is the row of the fact at hand; a failed embedding or a
\* failed insert drops that one fact and nothing else: the loop goes on to
\* the next fact with the history, the profile and the rows as they are, all
\* facts are still forwarded, and the call ends advancing the cursor and
\* returning true
C18_FactIsolation ==
    [][/\ vector_memories' # vector_memories =>
             /\ embedding = "vector"
             /\ vector_memories' =
                    Append(vector_memories, <<user_id, args.facts.v[idx].v>>)
       /\ pc' = "insert" => embedding' = "vector"
       /\ (pc \in {"embed", "insert"} /\ pc' # pc) =>
             /\ pc' \in {"insert", "loop"}
             /\ pc' = "loop" => idx' = idx + 1
             /\ UNCHANGED <<files, last_consolidated, args, forwarded, result, log>>
       /\ (pc = "loop" /\ pc' # pc) =>
             /\ pc' \in {"embed", "cursor"}
             /\ pc' = "cursor" => forwarded = ExpectedCalls(args.facts.v, user_id)
       /\ (pc = "cursor" /\ pc' # pc) =>
             /\ result' = "true"
             /\ last_consolidated' =
                    (IF archive_all THEN 0 ELSE Len(messages) - memory_window \div 2)
             /\ UNCHANGED <<files, vector_memories>>]_vars

\* of the facts "f", " " and "g" the first was lost (its embedding or its
\* insert failed), the last has its row, and the call has returned true with
\* the history and the profile written and the cursor advanced
C18_Witness ==
    /\ calls = 1
    /\ log = "done"
    /\ result = "true"
    /\ vector_memories = << <<1, <<"g">>>> >>
    /\ history_file # <<>>
    /\ memory_file = <<"p">>
    /\ last_consolidated > 0

\* C19: an operation holds at most one connection, and holds it only
\* between its acquire and its return (so not during, or before, its
\* embedding request); with no operation in flight no connection is out
C19_ConnectionsReturned ==
    /\ \A t \in Slots :
           /\ task[t].conns <= 1
           /\ task[t].conns = 1 =>
                  task[t].pc \in {"select", "insert_user", "insert_identity",
                                  "commit", "execute", "fetch"}
           /\ task[t].pc \in {"idle", "embed", "acquire", "done"} => task[t].conns = 0
    /\ (\A t \in Slots : task[t].pc \in {"idle", "done"}) => CheckedOut = 0

\* both slots have returned, one of them a get_user_id that left through an
\* exception inside its transaction (a user id was drawn, None was returned)
C19_Witness ==
    /\ \A t \in Slots : task[t].pc = "done"
    /\ \E t \in Slots :
           /\ task[t].op = "get_user_id"
           /\ task[t].ret_id = 0
           /\ next_id > FirstNewId
           /\ users = SeedUsers
    /\ \E t \in Slots : task[t].op = "search_memories" /\ task[t].ret_rows # <<>>
    /\ CheckedOut = 0

\* how often message m was in the slice of a consolidation that succeeded
TimesArchived(m) == Cardinality({k \in 1..Len(archived) : archived[k] = m})

\* C20: with archive_all never set and one window, whatever the caller
\* appends and whenever, every message below the cursor was in the slice of
\* exactly one consolidation that succeeded
C20_ArchivedExactlyOnce ==
    \A i \in 1..last_consolidated : TimesArchived(messages[i]) = 1

====
